---- MODULE Spec2Model ----
(***************************************************************************)
(* State-machine model of the DHTNEW driver (dhtnew.cpp 0.3.2): the gate   *)
(* of read(), the two-attempt type detection, the transport _readSensor()  *)
(* and the interpretation half of _read().                                 *)
(*                                                                         *)
(* Humidity, temperature and the offsets are fixed-point numbers counted   *)
(* in tenths (60.4 is 604), which is the resolution of both decode         *)
(* formulas.  The clock is millis().                                       *)
(***************************************************************************)
EXTENDS Integers, Sequences, FiniteSets, TLC

\* ------------------------------------------------------------------ bounds
\* one clock step, in ms
TickMs == 1000
\* the clock stops at MaxNow unless a blocking read() is waiting for it
MaxNow == 2000
\* how many of the frames of FrameTable the sensor may send
NFrames == 3
\* the line may stall in the bit loop only at every StallEvery-th bit
StallEvery == 24

\* ------------------------------------------------------- program constants
DHTLIB_DHT11_WAKEUP == 18
DHTLIB_DHT_WAKEUP == 1
DHTLIB_DHT11_READ_DELAY == 1000
DHTLIB_DHT22_READ_DELAY == 2000
\* number of bits of a frame (the for loop of _readSensor)
FrameBits == 40
\* the clock rate of the build (16 MHz, the UNO of the comment on the timeout)
F_CPU == 16000000
\* the iteration budget of every busy-wait
DHTLIB_TIMEOUT == F_CPU \div 40000
\* DHTLIB_INVALID_VALUE (-999), in tenths
DHTLIB_INVALID_VALUE == -9990

DHTLIB_OK == "OK"
DHTLIB_ERROR_CHECKSUM == "CHECKSUM"
DHTLIB_ERROR_BIT_SHIFT == "BIT_SHIFT"
DHTLIB_ERROR_SENSOR_NOT_READY == "SENSOR_NOT_READY"
DHTLIB_ERROR_TIMEOUT_A == "TIMEOUT_A"
DHTLIB_ERROR_TIMEOUT_B == "TIMEOUT_B"
DHTLIB_ERROR_TIMEOUT_C == "TIMEOUT_C"
DHTLIB_ERROR_TIMEOUT_D == "TIMEOUT_D"

\* the codes _readSensor() can return besides OK
TransportErrors ==
  { DHTLIB_ERROR_SENSOR_NOT_READY, DHTLIB_ERROR_TIMEOUT_A, DHTLIB_ERROR_TIMEOUT_B,
    DHTLIB_ERROR_TIMEOUT_C, DHTLIB_ERROR_TIMEOUT_D, DHTLIB_ERROR_BIT_SHIFT }

\* ------------------------------------------------------------ environment
\* frames the sensor may send: a good VariantB frame (60.4 %, 26.0 C), the
\* same frame with a wrong checksum, a frame with bit 7 of byte0 set, a
\* negative-temperature frame whose byte sum wraps, a VariantA-style frame
FrameTable ==
  << <<2, 92, 1, 4, 99>>,
     <<2, 92, 1, 4, 0>>,
     <<130, 92, 1, 4, 227>>,
     <<1, 144, 128, 50, 67>>,
     <<60, 0, 25, 0, 85>>,
     <<60, 0, 25, 0, 86>> >>

Frames == { FrameTable[k] : k \in 1..(IF NFrames < Len(FrameTable) THEN NFrames ELSE Len(FrameTable)) }

ZeroFrame == <<0, 0, 0, 0, 0>>

VARIABLES
  _type, _wakeupDelay, _readDelay, _lastRead, _waitForRead, _suppressError,
  _humidity, _temperature, _humOffset, _tempOffset, _bits,
  pinDir, pinOut, irq,        \* the data line as the host drives it, interrupts enabled
  now,                        \* millis()
  pc,                         \* where the caller / read() stands
  site,                       \* which call of _read() is running: "known", "first", "second"
  i, idx, mask, rv,           \* locals of _readSensor() and its return value
  waits,                      \* history: busy-waits the running transport has run
  iters,                      \* history: iterations of the body of the last of them
  stalled,                    \* history: the wait during which the line did not move
  callType,                   \* history: _type when the running read() was entered
  callHum, callTemp,          \* history: _humidity and _temperature at that moment
  attempts,                   \* history: the attempts of the running / last read()
  yielded,                    \* history: the running / last read() yielded in the gate
  result,                     \* what the last read() returned
  overridden,                 \* history: setReadDelay() has been called
  locked                      \* history: the type the last detection locked, 0 after
                              \* a setType() call or when there is none

vars ==
  << _type, _wakeupDelay, _readDelay, _lastRead, _waitForRead, _suppressError,
     _humidity, _temperature, _humOffset, _tempOffset, _bits,
     pinDir, pinOut, irq, now, pc, site, i, idx, mask, rv, waits, iters, stalled,
     callType, callHum, callTemp, attempts, yielded, result, overridden, locked >>

handle == << _type, _wakeupDelay, _readDelay, _lastRead, _humidity, _temperature, _bits >>
config == << _waitForRead, _suppressError, _humOffset, _tempOffset, overridden >>
line == << pinDir, pinOut, irq >>
locals == << i, idx, mask, rv, waits, iters, stalled >>
history == << callType, callHum, callTemp, attempts, yielded, result >>

\* the caller may start an operation
Callable == pc \in {"idle", "done"}

\* ---------------------------------------------------------------- helpers
\* x | m for a byte x and a one-bit mask m
SetBit(x, m) == IF (x \div m) % 2 = 1 THEN x ELSE x + m

\* bit m of byte k (counted from 0) of frame f
BitOf(f, k, m) == (f[k + 1] \div m) % 2

\* frame f agrees with the bits received so far, the next one being bit m of byte k
Agrees(f, b, k, m) ==
  /\ \A j \in 1..k : f[j] = b[j]
  /\ k < 5 => f[k + 1] - (f[k + 1] % (2 * m)) = b[k + 1]

\* millis() - _lastRead; the clock of the model stays below the wrap-around
\* of uint32_t and _lastRead never exceeds it, so the difference is exact
Elapsed == now - _lastRead

\* the interval for a type
ReadDelayFor(t) == IF t = 11 THEN DHTLIB_DHT11_READ_DELAY ELSE DHTLIB_DHT22_READ_DELAY

\* _readDelay after the first statement of read()
LazyReadDelay == IF _readDelay = 0 THEN ReadDelayFor(_type) ELSE _readDelay

\* mutants of TooEarly: the comparison inverted; the interval halved
TooEarlyInverted(delay) == Elapsed >= delay
TooEarlyHalved(delay) == Elapsed * 2 < delay

\* the condition of the while loop of read()
TooEarly(delay) == Elapsed < delay

\* mutant of FirstAttempt: detection starts with the DHT11 parameters
FirstAttemptDHT11 == [type |-> 11, wakeup |-> DHTLIB_DHT11_WAKEUP]

\* the type and wake-up delay of each detection attempt
FirstAttempt == [type |-> 22, wakeup |-> DHTLIB_DHT_WAKEUP]
SecondAttempt == [type |-> 11, wakeup |-> DHTLIB_DHT11_WAKEUP]

\* constrain(x, lo, hi)
constrain(x, lo, hi) == IF x < lo THEN lo ELSE IF x > hi THEN hi ELSE x

\* mutant of RawMagnitude: the sign bit stays in the magnitude
RawMagnitudeWithSign(t, b) == IF t = 22 THEN b[3] * 256 + b[4] ELSE b[3] * 10 + b[4]

\* the humidity and temperature _read() stores for a received frame, in tenths
RawHumidity(t, b) == IF t = 22 THEN b[1] * 256 + b[2] ELSE b[1] * 10 + b[2]
RawMagnitude(t, b) == IF t = 22 THEN (b[3] % 128) * 256 + b[4] ELSE b[3] * 10 + b[4]
RawTemperature(t, b) == IF b[3] >= 128 THEN 0 - RawMagnitude(t, b) ELSE RawMagnitude(t, b)
\* mutant of DecodedHumidity: the offset is added before and after the clamp
DecodedHumidityTwice(t, b, off) ==
  constrain(constrain(RawHumidity(t, b) + off, 0, 1000) + off, 0, 1000)
DecodedHumidity(t, b, off) == constrain(RawHumidity(t, b) + off, 0, 1000)
DecodedTemperature(t, b, off) == RawTemperature(t, b) + off

\* mutant of Checksum: the fourth byte is left out of the sum
ChecksumOfThree(b) == (b[1] + b[2] + b[3]) % 256

\* uint8_t sum = _bits[0] + _bits[1] + _bits[2] + _bits[3]
Checksum(b) == (b[1] + b[2] + b[3] + b[4]) % 256

\* what _read() returns, given what _readSensor() returned
ReadStatus(r, b) ==
  IF r # DHTLIB_OK THEN r
  ELSE IF b[5] # Checksum(b) THEN DHTLIB_ERROR_CHECKSUM ELSE DHTLIB_OK

\* mutant of StoredHumidity: _suppressError is not consulted
StoredHumidityNoSuppress(r) ==
  IF r # DHTLIB_OK THEN DHTLIB_INVALID_VALUE ELSE DecodedHumidity(_type, _bits, _humOffset)

\* mutant of StoredTemperature: a failed transport leaves the old value
StoredTemperatureKept(r) ==
  IF r # DHTLIB_OK THEN _temperature ELSE DecodedTemperature(_type, _bits, _tempOffset)

\* the values _read() leaves in _humidity and _temperature
StoredHumidity(r) ==
  IF r # DHTLIB_OK
  THEN IF _suppressError = FALSE THEN DHTLIB_INVALID_VALUE ELSE _humidity
  ELSE DecodedHumidity(_type, _bits, _humOffset)

StoredTemperature(r) ==
  IF r # DHTLIB_OK
  THEN IF _suppressError = FALSE THEN DHTLIB_INVALID_VALUE ELSE _temperature
  ELSE DecodedTemperature(_type, _bits, _tempOffset)

\* the line may stall at bit k (k counts down from FrameBits)
CanStall(k) == (FrameBits - k) % StallEvery = 0

\* how many consecutive reads may find the line still at the level a busy-wait
\* waits to end: none, one less than the budget, the budget, or more
Holds == {0, DHTLIB_TIMEOUT - 1, DHTLIB_TIMEOUT, DHTLIB_TIMEOUT + 1}

\* mutant of Iterations: the wait runs for as long as the line holds
IterationsUnbounded(hold) == hold

\* while (digitalRead() == level) { if (--loopCnt == 0) return ...; } with the
\* line at the level for the first `hold` reads: whether the wait returns the
\* error, and how often its body runs
TimesOut(hold) == hold >= DHTLIB_TIMEOUT
Iterations(hold) == IF hold < DHTLIB_TIMEOUT THEN hold ELSE DHTLIB_TIMEOUT

\* ------------------------------------------------------------------- Init
\* the constructor: line output-high, _readDelay 0; the other fields have the
\* defaults of the class declaration
Init ==
  /\ _type = 0 /\ _wakeupDelay = 0 /\ _readDelay = 0 /\ _lastRead = 0
  /\ _waitForRead = FALSE /\ _suppressError = FALSE
  /\ _humidity = 0 /\ _temperature = 0 /\ _humOffset = 0 /\ _tempOffset = 0
  /\ _bits = ZeroFrame
  /\ pinDir = "OUTPUT" /\ pinOut = "HIGH" /\ irq = TRUE
  /\ now = 0 /\ pc = "idle" /\ site = "none"
  /\ i = 0 /\ idx = 0 /\ mask = 0 /\ rv = "NONE"
  /\ waits = 0 /\ iters = 0 /\ stalled = "none"
  /\ callType = 0 /\ callHum = 0 /\ callTemp = 0
  /\ attempts = <<>> /\ yielded = FALSE /\ result = "NONE"
  /\ overridden = FALSE /\ locked = 0

\* ------------------------------------------------------------ the clock
\* the clock advances between operations, while read() yields in the gate, and
\* over a transport (counted when _readSensor() has returned: nothing in it
\* reads millis()); it stops at MaxNow
Tick ==
  /\ pc \in {"idle", "done", "gate", "post"}
  /\ now + TickMs <= MaxNow
  /\ now' = now + TickMs
  /\ UNCHANGED << handle, config, line, pc, site, locals, history, locked >>

\* ---------------------------------------------------------------- setters
\* the history variables describe the running read() or the one that has just
\* returned; any other operation of the caller clears them
ForgetCall ==
  /\ pc' = "idle"
  /\ callType' = 0 /\ callHum' = 0 /\ callTemp' = 0
  /\ attempts' = <<>> /\ yielded' = FALSE /\ result' = "NONE"

setType(type) ==
  /\ Callable
  /\ _type' = IF (type = 0) \/ (type = 11) \/ (type = 22) THEN type ELSE _type
  /\ ForgetCall
  /\ locked' = 0
  /\ UNCHANGED << _wakeupDelay, _readDelay, _lastRead, _humidity, _temperature, _bits,
                  config, line, now, site, locals >>

powerDown ==
  /\ Callable
  /\ pinOut' = "LOW"
  /\ ForgetCall
  /\ UNCHANGED << handle, config, pinDir, irq, now, site, locals, locked >>

setWaitForReadInterval(b) ==
  /\ Callable
  /\ _waitForRead' = b
  /\ ForgetCall
  /\ UNCHANGED << handle, _suppressError, _humOffset, _tempOffset, overridden,
                  line, now, site, locals, locked >>

setSuppressError(b) ==
  /\ Callable
  /\ _suppressError' = b
  /\ ForgetCall
  /\ UNCHANGED << handle, _waitForRead, _humOffset, _tempOffset, overridden,
                  line, now, site, locals, locked >>

setHumOffset(off) ==
  /\ Callable
  /\ _humOffset' = off
  /\ ForgetCall
  /\ UNCHANGED << handle, _waitForRead, _suppressError, _tempOffset, overridden,
                  line, now, site, locals, locked >>

setTempOffset(off) ==
  /\ Callable
  /\ _tempOffset' = off
  /\ ForgetCall
  /\ UNCHANGED << handle, _waitForRead, _suppressError, _humOffset, overridden,
                  line, now, site, locals, locked >>

setReadDelay(rd) ==
  /\ Callable
  /\ _readDelay' = rd
  /\ overridden' = TRUE
  /\ ForgetCall
  /\ UNCHANGED << _type, _wakeupDelay, _lastRead, _humidity, _temperature, _bits,
                  _waitForRead, _suppressError, _humOffset, _tempOffset,
                  line, now, site, locals, locked >>

\* ------------------------------------------------------------------ read()
\* the start of one transport: _read() is entered from call site s
StartRead(s) ==
  /\ pc' = "wake"
  /\ site' = s

\* mutants of Known: the gate applies to every type; every read() detects
KnownAlways(t) == t = t
KnownNever(t) == t # t

\* if (_type != 0)
Known(t) == t # 0

\* read() up to its first return, yield() or _read(): the lazy interval, the
\* gate (evaluated once) or the first step of detection
EnterRead ==
  LET delay == LazyReadDelay IN
  /\ _readDelay' = delay
  /\ callType' = _type /\ callHum' = _humidity /\ callTemp' = _temperature
  /\ attempts' = <<>>
  /\ IF Known(_type)
     THEN /\ UNCHANGED << _type, _wakeupDelay >>
          /\ IF TooEarly(delay)
             THEN IF ~_waitForRead
                  THEN /\ pc' = "done" /\ result' = DHTLIB_OK
                       /\ yielded' = FALSE /\ UNCHANGED site
                  ELSE /\ pc' = "gate" /\ result' = "NONE"
                       /\ yielded' = TRUE /\ UNCHANGED site
             ELSE /\ StartRead("known") /\ result' = "NONE" /\ yielded' = FALSE
     ELSE /\ _type' = FirstAttempt.type
          /\ _wakeupDelay' = FirstAttempt.wakeup
          /\ StartRead("first") /\ result' = "NONE" /\ yielded' = FALSE

\* a blocking read() is called only if its wait ends before the clock stops
LastTick == now + ((MaxNow - now) \div TickMs) * TickMs

WaitFits ==
  (_type # 0 /\ _waitForRead /\ TooEarly(LazyReadDelay)) => LastTick - _lastRead >= LazyReadDelay

read ==
  /\ Callable
  /\ WaitFits
  /\ EnterRead
  /\ UNCHANGED << _lastRead, _humidity, _temperature, _bits, config, line, now, locals, locked >>

\* powerUp(): digitalWrite(HIGH), then read() with its result dropped
powerUp ==
  /\ Callable
  /\ WaitFits
  /\ pinOut' = "HIGH"
  /\ EnterRead
  /\ UNCHANGED << _lastRead, _humidity, _temperature, _bits, config, pinDir, irq, now, locals,
                  locked >>

\* one more evaluation of the while loop of read(), after a yield()
Gate ==
  /\ pc = "gate"
  /\ IF TooEarly(_readDelay)
     THEN IF ~_waitForRead
          THEN /\ pc' = "done" /\ result' = DHTLIB_OK /\ UNCHANGED << site, yielded >>
          ELSE /\ yielded' = TRUE /\ UNCHANGED << pc, site, result >>
     ELSE /\ StartRead("known") /\ UNCHANGED << yielded, result >>
  /\ UNCHANGED << handle, config, line, now, locals, callType, callHum, callTemp, attempts,
                  locked >>

\* ----------------------------------------------------------- _readSensor()
\* delayMicroseconds(_wakeupDelay * 1100UL): the length of the wake-up pulse
WakeupPulseUs == _wakeupDelay * 1100

\* buffer emptied, wake-up pulse sent, line released, interrupts masked
Wakeup ==
  /\ pc = "wake"
  /\ _bits' = ZeroFrame
  /\ mask' = 128 /\ idx' = 0 /\ i' = 0 /\ rv' = "NONE"
  /\ waits' = 0 /\ iters' = 0 /\ stalled' = "none"
  /\ pinDir' = "INPUT_PULLUP" /\ pinOut' = "LOW" /\ irq' = FALSE
  /\ attempts' = Append(attempts, [type |-> _type, wakeup |-> _wakeupDelay,
                                   pulseUs |-> WakeupPulseUs,
                                   early |-> TooEarly(_readDelay), status |-> "NONE"])
  /\ pc' = "ready"
  /\ UNCHANGED << _type, _wakeupDelay, _readDelay, _lastRead, _humidity, _temperature,
                  config, now, site, callType, callHum, callTemp, yielded, result, locked >>

\* _readSensor() returns r
SensorReturn(r) ==
  /\ rv' = r
  /\ pc' = "post"

\* one busy-wait of the handshake: the line leaves the level within the
\* budget and the next wait starts, or the budget runs out
HandshakeWait(at, code, next) ==
  /\ pc = at
  /\ \E hold \in Holds :
       /\ waits' = waits + 1
       /\ iters' = Iterations(hold)
       /\ IF TimesOut(hold)
          THEN SensorReturn(code) /\ stalled' = at /\ UNCHANGED i
          ELSE /\ pc' = next /\ UNCHANGED << rv, stalled >>
               /\ i' = IF next = "bits" THEN FrameBits ELSE i
  /\ UNCHANGED << handle, config, line, now, site, idx, mask, history, locked >>

\* mutant of WaitAckLow: the code of the next wait is returned
WaitAckLowAsB == HandshakeWait("ackLow", DHTLIB_ERROR_TIMEOUT_B, "ackHigh")

WaitReady == HandshakeWait("ready", DHTLIB_ERROR_SENSOR_NOT_READY, "ackLow")
WaitAckLow == HandshakeWait("ackLow", DHTLIB_ERROR_TIMEOUT_A, "ackHigh")
WaitAckHigh == HandshakeWait("ackHigh", DHTLIB_ERROR_TIMEOUT_B, "bits")

\* one pass of the bit loop
ReadBit ==
  /\ pc = "bits"
  /\ \E low \in Holds, high \in Holds :
       /\ (TimesOut(low) \/ TimesOut(high)) => CanStall(i)
       /\ IF TimesOut(low)
          THEN /\ SensorReturn(DHTLIB_ERROR_TIMEOUT_C)
               /\ stalled' = "bitLow" /\ waits' = waits + 1 /\ iters' = Iterations(low)
               /\ UNCHANGED << _bits, i, idx, mask >>
          ELSE IF TimesOut(high)
          THEN /\ SensorReturn(DHTLIB_ERROR_TIMEOUT_D)
               /\ stalled' = "bitHigh" /\ waits' = waits + 2 /\ iters' = Iterations(high)
               /\ UNCHANGED << _bits, i, idx, mask >>
          ELSE /\ \E f \in Frames :
                    /\ Agrees(f, _bits, idx, mask)
                    /\ _bits' = IF BitOf(f, idx, mask) = 1
                                THEN [_bits EXCEPT ![idx + 1] = SetBit(@, mask)]
                                ELSE _bits
               /\ mask' = IF mask \div 2 = 0 THEN 128 ELSE mask \div 2
               /\ idx' = IF mask \div 2 = 0 THEN idx + 1 ELSE idx
               /\ i' = i - 1
               /\ pc' = IF i - 1 # 0 THEN "bits" ELSE "trail"
               /\ waits' = waits + 2 /\ iters' = Iterations(high)
               /\ UNCHANGED << rv, stalled >>
  /\ UNCHANGED << _type, _wakeupDelay, _readDelay, _lastRead, _humidity, _temperature,
                  config, line, now, site, history, locked >>

\* the trailing low wait, whose timeout only breaks, and the bit-shift check
\* mutant of BitShiftCheck: a frame whose sum matches is let through
BitShiftCheckAfterSum(b) ==
  IF b[1] >= 128 /\ b[5] # Checksum(b) THEN DHTLIB_ERROR_BIT_SHIFT ELSE DHTLIB_OK

\* if (_bits[0] & 0x80) return DHTLIB_ERROR_BIT_SHIFT; return DHTLIB_OK;
BitShiftCheck(b) == IF b[1] >= 128 THEN DHTLIB_ERROR_BIT_SHIFT ELSE DHTLIB_OK

Trail ==
  /\ pc = "trail"
  /\ \E hold \in Holds :
       /\ waits' = waits + 1
       /\ iters' = Iterations(hold)
       /\ stalled' = IF TimesOut(hold) THEN "trail" ELSE "none"
       /\ SensorReturn(BitShiftCheck(_bits))
  /\ UNCHANGED << handle, config, line, now, site, i, idx, mask, history, locked >>

\* ------------------------------------------------------------------ _read()
\* mutants of AfterRead: a failed detection keeps the last type tried; a failed
\* read of a known type forgets the type; a failed read of a known type
\* switches to the other type
AfterReadKeepsType(s, st) ==
  IF s = "first" /\ st # DHTLIB_OK
  THEN [type |-> SecondAttempt.type, wakeup |-> SecondAttempt.wakeup, again |-> TRUE]
  ELSE [type |-> _type, wakeup |-> _wakeupDelay, again |-> FALSE]

AfterReadForgetsType(s, st) ==
  IF st = DHTLIB_OK THEN [type |-> _type, wakeup |-> _wakeupDelay, again |-> FALSE]
  ELSE IF s = "first"
       THEN [type |-> SecondAttempt.type, wakeup |-> SecondAttempt.wakeup, again |-> TRUE]
       ELSE [type |-> 0, wakeup |-> _wakeupDelay, again |-> FALSE]

AfterReadSwitchesType(s, st) ==
  IF st = DHTLIB_OK THEN [type |-> _type, wakeup |-> _wakeupDelay, again |-> FALSE]
  ELSE IF s = "first"
       THEN [type |-> SecondAttempt.type, wakeup |-> SecondAttempt.wakeup, again |-> TRUE]
       ELSE IF s = "second"
            THEN [type |-> 0, wakeup |-> _wakeupDelay, again |-> FALSE]
            ELSE [type |-> IF _type = 11 THEN 22 ELSE 11, wakeup |-> _wakeupDelay,
                  again |-> FALSE]

\* read() after _read() returned st at call site s: the next type and
\* wake-up delay, and whether read() returns or runs _read() again
AfterRead(s, st) ==
  IF s = "known" THEN [type |-> _type, wakeup |-> _wakeupDelay, again |-> FALSE]
  ELSE IF st = DHTLIB_OK THEN [type |-> _type, wakeup |-> _wakeupDelay, again |-> FALSE]
  ELSE IF s = "first"
       THEN [type |-> SecondAttempt.type, wakeup |-> SecondAttempt.wakeup, again |-> TRUE]
       ELSE [type |-> 0, wakeup |-> _wakeupDelay, again |-> FALSE]

\* mutants of RestoreAfter: interrupts come back, or the time is taken, only
\* after a transport that succeeded
RestoreAfterOkOnly(r) ==
  [irq |-> r = DHTLIB_OK, dir |-> "OUTPUT", out |-> "HIGH", last |-> now]
RestoreAfterNoStamp(r) ==
  [irq |-> TRUE, dir |-> "OUTPUT", out |-> "HIGH",
   last |-> IF r = DHTLIB_OK THEN now ELSE _lastRead]

\* what _read() does first when _readSensor() has returned r: interrupts(),
\* the line back to output-high, _lastRead = millis()
RestoreAfter(r) == [irq |-> TRUE, dir |-> "OUTPUT", out |-> "HIGH", last |-> now]

\* _read() from the return of _readSensor() on, and read() up to its return
\* or its second _read()
Finish ==
  /\ pc = "post"
  /\ irq' = RestoreAfter(rv).irq
  /\ pinDir' = RestoreAfter(rv).dir /\ pinOut' = RestoreAfter(rv).out
  /\ _lastRead' = RestoreAfter(rv).last
  /\ _humidity' = StoredHumidity(rv)
  /\ _temperature' = StoredTemperature(rv)
  /\ LET st == ReadStatus(rv, _bits)
         nx == AfterRead(site, st)
     IN /\ attempts' = [attempts EXCEPT ![Len(attempts)].status = st]
        /\ _type' = nx.type
        /\ _wakeupDelay' = nx.wakeup
        /\ IF nx.again
           THEN StartRead("second") /\ UNCHANGED result
           ELSE pc' = "done" /\ result' = st /\ UNCHANGED site
        /\ locked' = IF site # "known" /\ st = DHTLIB_OK THEN _type ELSE locked
  /\ i' = 0 /\ idx' = 0 /\ mask' = 0 /\ rv' = "NONE"
  /\ waits' = 0 /\ iters' = 0 /\ stalled' = "none"
  /\ UNCHANGED << _readDelay, _bits, config, now, callType, callHum, callTemp, yielded >>

\* ------------------------------------------------------------------- Next
\* what the caller may pass
Types == {0, 11, 22, 33}
HumOffsets == {0, 500}
TempOffsets == {0, -55}
ReadDelays == {0, 500}

Next ==
  \/ Tick
  \/ read
  \/ powerUp
  \/ powerDown
  \/ \E t \in Types : setType(t)
  \/ \E b \in BOOLEAN : setWaitForReadInterval(b)
  \/ \E b \in BOOLEAN : setSuppressError(b)
  \/ \E rd \in ReadDelays : setReadDelay(rd)
  \/ Gate
  \/ Wakeup
  \/ WaitReady
  \/ WaitAckLow
  \/ WaitAckHigh
  \/ ReadBit
  \/ Trail
  \/ Finish

Spec == Init /\ [][Next]_vars

\* the steps of read() itself: once called it runs, and the gate loop goes on
\* as soon as the interval has elapsed
Progress ==
  Gate \/ Wakeup \/ WaitReady \/ WaitAckLow \/ WaitAckHigh \/ ReadBit \/ Trail \/ Finish

\* read() keeps running and the clock keeps advancing (up to MaxNow)
FairSpec == Spec /\ WF_vars(Tick) /\ WF_vars(Progress)

\* the model with the calibration offsets changed by the caller as well
NextCal ==
  \/ Next
  \/ \E off \in HumOffsets : setHumOffset(off)
  \/ \E off \in TempOffsets : setTempOffset(off)

SpecCal == Init /\ [][NextCal]_vars

\* ------------------------------------------- the decoding of received frames
\* how many of the byte values of ByteTable the sensor may send
NByteVals == 5
ByteTable == << 0, 2, 128, 50, 60, 255, 92 >>
ByteVals == { ByteTable[k] : k \in 1..(IF NByteVals < Len(ByteTable) THEN NByteVals
                                        ELSE Len(ByteTable)) }

\* the frames the line may have delivered: any four bytes, and a fifth that is
\* their sum or one more
ReceivedFrames ==
  { << a, b, c, d, (a + b + c + d + e) % 256 >> :
      a \in ByteVals, b \in ByteVals, c \in ByteVals, d \in ByteVals, e \in {0, 1} }

\* the offsets the caller may have set before the read
CalHumOffsets == {-700, 0, 500}
CalTempOffsets == {0, -55}

\* the frames a first detection attempt decodes and rejects for their sum
RejectedFrames == { f \in Frames : f[1] < 128 /\ f[5] # Checksum(f) }

\* the attempt a transport has logged when it began
Begun(t, w) == [type |-> t, wakeup |-> w, pulseUs |-> w * 1100, early |-> FALSE,
                status |-> "NONE"]

\* _readSensor() has stored the 40th bit of a frame: in a read() of a handle of
\* known type, or in the first or the second attempt of a detection whose first
\* attempt decoded a frame and rejected its sum
InitFrame ==
  /\ site \in {"known", "first", "second"}
  /\ _type \in {11, 22}
  /\ site = "first" => _type = FirstAttempt.type
  /\ site = "second" => _type = SecondAttempt.type
  /\ _wakeupDelay = IF _type = 11 THEN DHTLIB_DHT11_WAKEUP ELSE DHTLIB_DHT_WAKEUP
  /\ _readDelay = IF site = "known" THEN ReadDelayFor(_type) ELSE ReadDelayFor(0)
  /\ _lastRead = 0 /\ now = 0
  /\ _waitForRead = FALSE /\ _suppressError \in BOOLEAN
  /\ _humOffset \in CalHumOffsets /\ _tempOffset \in CalTempOffsets
  /\ _bits \in ReceivedFrames
  /\ \E f \in RejectedFrames :
       /\ _humidity = IF site = "second"
                      THEN DecodedHumidity(FirstAttempt.type, f, _humOffset) ELSE 0
       /\ _temperature = IF site = "second"
                         THEN DecodedTemperature(FirstAttempt.type, f, _tempOffset) ELSE 0
  /\ attempts = IF site = "second"
                THEN << [Begun(FirstAttempt.type, FirstAttempt.wakeup)
                           EXCEPT !.status = DHTLIB_ERROR_CHECKSUM],
                        Begun(_type, _wakeupDelay) >>
                ELSE << Begun(_type, _wakeupDelay) >>
  /\ pinDir = "INPUT_PULLUP" /\ pinOut = "LOW" /\ irq = FALSE
  /\ pc = "trail"
  /\ i = 0 /\ idx = 5 /\ mask = 128 /\ rv = "NONE"
  /\ waits = 3 + 2 * FrameBits /\ iters = 0 /\ stalled = "none"
  /\ callType = IF site = "known" THEN _type ELSE 0
  /\ callHum = 0 /\ callTemp = 0
  /\ yielded = FALSE /\ result = "NONE"
  /\ overridden = FALSE /\ locked = IF site = "known" THEN _type ELSE 0

\* the rest of the transport and of the read()
NextFrame ==
  \/ Trail
  \/ Finish

SpecFrame == InitFrame /\ [][NextFrame]_vars

\* =================================================================== claims
\* a read() or powerUp() has returned and the caller has done nothing since
Returned == pc = "done"

\* the status of the last attempt of the running / last read()
LastStatus == attempts[Len(attempts)].status

\* a step of the caller that enters read() (directly or through powerUp())
EntersRead == Callable /\ pc' # "idle" /\ now' = now

\* ----------------------------------------------------------------------- C1
\* C1: a read() entered with _type = 0 first runs an attempt with type 22 and
\* wake-up 1; if that attempt returns OK, read() returns OK with _type = 22 after
\* that single transport; otherwise exactly one more attempt runs, with type 11
\* and wake-up 18, and if it returns OK, read() returns OK with _type = 11.
C1_DetectionOrder ==
  (Returned /\ callType = 0) =>
    /\ Len(attempts) >= 1
    /\ attempts[1].type = 22 /\ attempts[1].wakeup = 1
    /\ attempts[1].status = DHTLIB_OK =>
         (Len(attempts) = 1 /\ result = DHTLIB_OK /\ _type = 22)
    /\ attempts[1].status # DHTLIB_OK =>
         /\ Len(attempts) = 2
         /\ attempts[2].type = 11 /\ attempts[2].wakeup = 18
         /\ attempts[2].status = DHTLIB_OK => (result = DHTLIB_OK /\ _type = 11)

\* a detection whose first attempt failed and whose second succeeded
C1_Witness ==
  /\ Returned /\ callType = 0 /\ Len(attempts) = 2
  /\ attempts[1].status # DHTLIB_OK /\ attempts[2].status = DHTLIB_OK
  /\ result = DHTLIB_OK /\ _type = 11

\* ----------------------------------------------------------------------- C2
\* both attempts of a detection have failed
FailedDetection ==
  /\ Returned /\ callType = 0 /\ Len(attempts) = 2
  /\ attempts[1].status # DHTLIB_OK /\ attempts[2].status # DHTLIB_OK

\* C2: when both attempts of a detection read() fail, read() returns with
\* _type = 0 and with the status of the second attempt, and the next read()
\* starts detection again with the type 22 attempt (whose course is C1's).
C2_FailedDetection ==
  /\ [](FailedDetection => (_type = 0 /\ result = attempts[2].status))
  /\ [][(FailedDetection /\ EntersRead) =>
          (pc' = "wake" /\ site' = "first" /\ callType' = 0 /\ attempts' = <<>>
             /\ _type' = 22 /\ _wakeupDelay' = 1)]_vars

\* a detection, not at time 0, whose first attempt ended with a checksum error
\* and whose second attempt timed out
C2_Witness ==
  /\ FailedDetection /\ _lastRead > 0
  /\ attempts[1].status = DHTLIB_ERROR_CHECKSUM
  /\ attempts[2].status = DHTLIB_ERROR_TIMEOUT_D

\* ----------------------------------------------------------------------- C3
\* the wake-up delay detection sets for a type
WakeupOf(t) == IF t = 11 THEN 18 ELSE 1

\* C3: after a detection read() has locked type V and while setType() has not
\* been called, _type and the wake-up delay stay V's, every transport is the
\* single _read() of a read() that passed the gate, and a frame it decodes is
\* decoded with V's formula.
C3_LockedTypeIsUsed ==
  locked # 0 =>
    /\ _type = locked /\ _wakeupDelay = WakeupOf(locked)
    /\ pc \notin {"idle", "done", "gate"} => (site = "known" /\ ~TooEarly(_readDelay))
    /\ (Returned /\ callType # 0 /\ attempts # <<>>) =>
         /\ Len(attempts) = 1
         /\ attempts[1].type = locked /\ attempts[1].wakeup = WakeupOf(locked)
         /\ ~attempts[1].early
         /\ attempts[1].status \in {DHTLIB_OK, DHTLIB_ERROR_CHECKSUM} =>
              /\ _humidity = DecodedHumidity(locked, _bits, _humOffset)
              /\ _temperature = DecodedTemperature(locked, _bits, _tempOffset)

\* a later read() of a handle locked to type 11 has decoded a frame
C3_Witness ==
  /\ locked = 11 /\ Returned /\ callType = 11
  /\ Len(attempts) = 1 /\ attempts[1].status = DHTLIB_OK

\* ----------------------------------------------------------------------- C4
\* a read() entered with a known type has run its transport, which failed
KnownReadFailed ==
  /\ Returned /\ callType # 0 /\ Len(attempts) = 1
  /\ attempts[1].status # DHTLIB_OK

\* C4 as claimed: a failed read() of a known type resets _type to 0.
C4_Original == KnownReadFailed => _type = 0

\* C4 amended: a failed read() of a known type leaves _type as it was; read()
\* sets _type to 0 only when the second attempt of a detection fails.
C4_TypeSurvivesFailure ==
  /\ [](KnownReadFailed => (_type = callType /\ result = attempts[1].status))
  /\ [][(_type # 0 /\ _type' = 0) =>
          \/ pc = "post" /\ site = "second"
          \/ Callable /\ pc' = "idle"]_vars

\* a read() of type 22 failed with a timeout and the type is still 22
C4_Witness ==
  /\ KnownReadFailed /\ callType = 22 /\ _type = 22
  /\ result = DHTLIB_ERROR_TIMEOUT_A

\* ----------------------------------------------------------------------- C5
\* C5 as claimed: _type never goes in one step from 11 to 22 or from 22 to 11.
C5_Original ==
  [][~(_type = 11 /\ _type' = 22) /\ ~(_type = 22 /\ _type' = 11)]_vars

\* C5 amended: read(), powerUp() and powerDown() never change _type from 11 to
\* 22, and a read() or powerUp() entered with a known type keeps it to its
\* return; _type goes from 22 to 11 inside read() only between the two attempts
\* of a detection, and otherwise directly between 11 and 22 only by a call of
\* the caller between reads (setType()).
C5_DirectSwitches ==
  /\ [](callType # 0 => _type = callType)
  /\ [][(_type = 11 /\ _type' = 22) => (Callable /\ pc' = "idle")]_vars
  /\ [][(_type = 22 /\ _type' = 11) =>
          \/ Callable /\ pc' = "idle"
          \/ pc = "post" /\ site = "first" /\ callType = 0 /\ pc' = "wake"]_vars

\* detection has replaced the tentative type 22 by 11 for its second attempt
C5_Witness == pc = "wake" /\ site = "second" /\ _type = 11 /\ callType = 0

\* ----------------------------------------------------------------------- C6
\* C6: with a known type and blocking off, a read() entered while
\* now - _lastRead is below the interval returns OK at once: no attempt runs,
\* and _humidity, _temperature, _type, _lastRead, _bits, the pin mode and the
\* interrupt mask are unchanged (the line level changes only by the
\* digitalWrite(HIGH) of powerUp()).
C6_ThrottledRead ==
  [][(EntersRead /\ _type # 0 /\ ~_waitForRead /\ now - _lastRead < LazyReadDelay) =>
       /\ pc' = "done" /\ result' = DHTLIB_OK
       /\ attempts' = <<>> /\ ~yielded'
       /\ UNCHANGED << _humidity, _temperature, _type, _wakeupDelay, _lastRead, _bits,
                       pinDir, irq >>
       /\ pinOut' \in {pinOut, "HIGH"}]_vars

\* a throttled read() has returned OK over the values of an earlier reading
C6_Witness ==
  /\ Returned /\ callType = 22 /\ attempts = <<>> /\ ~yielded
  /\ result = DHTLIB_OK /\ ~_waitForRead
  /\ _humidity = 604 /\ _temperature = 260 /\ now - _lastRead < _readDelay

\* ----------------------------------------------------------------------- C7
\* C7: with a known type and blocking on, a read() entered before the interval
\* has elapsed only yields while now - _lastRead is below the interval: no
\* attempt has run and the line and the handle are as they were; it leaves the
\* gate only for a transport, at a moment when the interval has elapsed; and,
\* the clock advancing, it does run that single transport and returns its status.
C7_BlockingRead ==
  /\ [](pc = "gate" =>
          /\ yielded /\ attempts = <<>> /\ irq /\ pinDir = "OUTPUT"
          /\ _humidity = callHum /\ _temperature = callTemp /\ _type = callType)
  /\ [][(pc = "gate" /\ pc' # "gate") =>
          (pc' = "wake" /\ site' = "known" /\ now - _lastRead >= _readDelay)]_vars
  /\ []((Returned /\ yielded) =>
          (Len(attempts) = 1 /\ ~attempts[1].early /\ result = attempts[1].status))
  /\ (pc = "gate") ~> (Returned /\ yielded /\ Len(attempts) = 1)

\* a read() that waited in the gate has run its transport and returned
C7_Witness ==
  /\ Returned /\ yielded /\ _waitForRead /\ Len(attempts) = 1
  /\ result = DHTLIB_OK /\ _lastRead >= _readDelay

\* ----------------------------------------------------------------------- C8
\* C8: a read() entered with _type = 0 goes straight to the first detection
\* attempt, whatever now - _lastRead and _waitForRead are: it neither returns
\* nor yields first, and the gate is only ever entered with a known type.
C8_UnknownSkipsGate ==
  /\ [][(EntersRead /\ _type = 0) =>
          (pc' = "wake" /\ site' = "first" /\ ~yielded' /\ attempts' = <<>>)]_vars
  /\ [](pc = "gate" => callType # 0)
  /\ []((Returned /\ callType = 0) => (~yielded /\ Len(attempts) >= 1))

\* detection starts although an attempt ended less than the interval ago and
\* blocking is on
C8_Witness ==
  /\ pc = "wake" /\ site = "first" /\ callType = 0 /\ attempts = <<>>
  /\ _waitForRead /\ _lastRead > 0 /\ now - _lastRead < _readDelay

\* ----------------------------------------------------------------------- C9
\* C9 as claimed: without a setReadDelay() call, whenever read() evaluates the
\* gate (it was entered with a known type), the interval is 1000 for type 11
\* and 2000 for type 22.
C9_IntervalFollowsType ==
  (callType # 0 /\ ~overridden) =>
    _readDelay = IF _type = 11 THEN 1000 ELSE 2000

\* ---------------------------------------------------------------------- C10
\* C10 as claimed (read for the transport whose failure ends the call): when
\* the last transport of a read() fails, read() returns its code, and _humidity
\* and _temperature are the sentinel (suppression off) or the values they had
\* before the call (suppression on).
C10_Original ==
  (Returned /\ attempts # <<>> /\ LastStatus \in TransportErrors) =>
    /\ result = LastStatus
    /\ ~_suppressError =>
         (_humidity = DHTLIB_INVALID_VALUE /\ _temperature = DHTLIB_INVALID_VALUE)
    /\ _suppressError => (_humidity = callHum /\ _temperature = callTemp)

\* C10 amended: an attempt whose transport fails has that code as its status,
\* and it stores the sentinel in _humidity and _temperature (suppression off)
\* or leaves them as they were before the attempt (suppression on); no other
\* step of a transport touches them.  read() returns the code when the attempt
\* is its last one, and the values are those before the call when the call was
\* entered with a known type.
C10_FailedTransport ==
  /\ [][(pc = "post" /\ rv \in TransportErrors /\ pc' # "post") =>
          /\ attempts'[Len(attempts')].status = rv
          /\ pc' = "done" => result' = rv
          /\ ~_suppressError =>
               (_humidity' = DHTLIB_INVALID_VALUE /\ _temperature' = DHTLIB_INVALID_VALUE)
          /\ _suppressError => UNCHANGED << _humidity, _temperature >>]_vars
  /\ [][pc # "post" => UNCHANGED << _humidity, _temperature >>]_vars
  /\ []((Returned /\ attempts # <<>> /\ LastStatus \in TransportErrors) =>
          /\ result = LastStatus
          /\ ~_suppressError =>
               (_humidity = DHTLIB_INVALID_VALUE /\ _temperature = DHTLIB_INVALID_VALUE)
          /\ (_suppressError /\ callType # 0) =>
               (_humidity = callHum /\ _temperature = callTemp))

\* with suppression on, a failed read() has kept the values of a good reading
C10_Witness ==
  /\ Returned /\ _suppressError /\ callType # 0 /\ Len(attempts) = 1
  /\ result = DHTLIB_ERROR_TIMEOUT_C
  /\ _humidity = 604 /\ _temperature = 260


\* ------------------------------------------------- claims on received frames
\* _read() is about to act on a frame _readSensor() received in full
FrameReceived == pc = "post" /\ idx = 5

\* the status _read() logs in the step
StatusAfter == attempts'[Len(attempts)].status

\* C11: for every frame received in full whose first byte has bit 7 clear, the
\* status of the attempt is OK exactly when the fifth byte equals the sum of
\* the first four modulo 256 and CHECKSUM otherwise; on CHECKSUM the decoded,
\* offset-adjusted humidity and temperature are stored, not the sentinel.
C11_ChecksumDecides ==
  [][ (FrameReceived /\ _bits[1] < 128) =>
        LET sum == (_bits[1] + _bits[2] + _bits[3] + _bits[4]) % 256 IN
          /\ StatusAfter = DHTLIB_OK <=> _bits[5] = sum
          /\ StatusAfter # DHTLIB_OK =>
               /\ StatusAfter = DHTLIB_ERROR_CHECKSUM
               /\ _humidity' = DecodedHumidity(_type, _bits, _humOffset)
               /\ _humidity' # DHTLIB_INVALID_VALUE
               /\ _temperature' = DecodedTemperature(_type, _bits, _tempOffset) ]_vars

C11_Witness ==
  /\ Returned /\ result = DHTLIB_ERROR_CHECKSUM
  /\ _suppressError = FALSE
  /\ _bits[1] = 2 /\ _bits[5] # (_bits[1] + _bits[2] + _bits[3] + _bits[4]) % 256
  /\ _humidity > 0 /\ _temperature # DHTLIB_INVALID_VALUE

\* C12: a frame received in full whose first byte has bit 7 set gives
\* BIT_SHIFT whether or not its fifth byte matches the sum; the frame is not
\* decoded: the values are the sentinel, or the old ones under suppression.
C12_BitShiftFirst ==
  [][ (FrameReceived /\ _bits[1] >= 128) =>
        /\ StatusAfter = DHTLIB_ERROR_BIT_SHIFT
        /\ _humidity' = IF _suppressError THEN _humidity ELSE DHTLIB_INVALID_VALUE
        /\ _temperature' = IF _suppressError THEN _temperature ELSE DHTLIB_INVALID_VALUE ]_vars

C12_Witness ==
  /\ Returned /\ result = DHTLIB_ERROR_BIT_SHIFT
  /\ _bits[1] >= 128
  /\ _bits[5] = (_bits[1] + _bits[2] + _bits[3] + _bits[4]) % 256
  /\ _humidity = DHTLIB_INVALID_VALUE /\ _temperature = DHTLIB_INVALID_VALUE

\* C13: after every attempt that decodes a frame (OK or CHECKSUM), for every
\* frame and every offset, the stored humidity is the raw humidity plus the
\* offset clamped to 0..100 and the stored temperature is the raw temperature
\* plus the offset, unclamped; whatever an earlier decoding of the same read()
\* stored does not enter.
C13_OffsetsOnce ==
  [][ (FrameReceived /\ _bits[1] < 128) =>
        LET h == RawHumidity(_type, _bits) + _humOffset
            t == RawTemperature(_type, _bits) + _tempOffset
        IN /\ _humidity' = (IF h < 0 THEN 0 ELSE IF h > 1000 THEN 1000 ELSE h)
           /\ _temperature' = t ]_vars

\* base 60 and offset 50 give 100, in the second decoding of a detection
C13_Witness ==
  /\ Returned /\ result = DHTLIB_OK /\ Len(attempts) = 2
  /\ attempts[1].status = DHTLIB_ERROR_CHECKSUM
  /\ _type = 11 /\ _bits[1] = 60 /\ _bits[2] = 0 /\ _humOffset = 500
  /\ _humidity = 1000
  /\ _tempOffset = -55 /\ _temperature = _bits[3] * 10 + _bits[4] - 55

\* the frame is decoded as type 22 with both offsets zero
PlainVariantB ==
  FrameReceived /\ _bits[1] < 128 /\ _type = 22 /\ _humOffset = 0 /\ _tempOffset = 0

\* the temperature of a type 22 frame: bit 7 of the third byte is the sign
SignedTenths(b) ==
  IF b[3] >= 128 THEN 0 - ((b[3] - 128) * 256 + b[4]) ELSE b[3] * 256 + b[4]

\* C14 as claimed: for type 22 frames and zero offsets the humidity is
\* (byte0 * 256 + byte1) / 10 and the temperature is the signed magnitude.
C14_Original ==
  [][ PlainVariantB =>
        /\ _humidity' = _bits[1] * 256 + _bits[2]
        /\ _temperature' = SignedTenths(_bits) ]_vars

\* C14: for type 22 frames and zero offsets the humidity is
\* (byte0 * 256 + byte1) / 10, but no more than 100, and the temperature has
\* the magnitude ((byte2 & 0x7F) * 256 + byte3) / 10, negated exactly when
\* bit 7 of byte2 is set.
C14_VariantBDecoding ==
  [][ PlainVariantB =>
        /\ _humidity' = (IF _bits[1] * 256 + _bits[2] > 1000 THEN 1000
                         ELSE _bits[1] * 256 + _bits[2])
        /\ _temperature' = SignedTenths(_bits) ]_vars

\* byte2 = 0x80, byte3 = 0x32 give -5.0
C14_Witness ==
  /\ Returned /\ result = DHTLIB_OK
  /\ _type = 22 /\ _humOffset = 0 /\ _tempOffset = 0
  /\ _bits[1] = 2 /\ _bits[2] = 50 /\ _bits[3] = 128 /\ _bits[4] = 50
  /\ _humidity = 562 /\ _temperature = -50

\* ------------------------------------------------- claims on the transport
\* _readSensor() is polling or sampling the line, or has just returned
InTransport == pc \in {"ready", "ackLow", "ackHigh", "bits", "trail", "post"}

\* C15: interrupts are masked from the start of the handshake polling to the
\* return of _readSensor(), on every exit path, and are enabled in every
\* state where read() or powerUp() has returned (and wherever no transport
\* is polling).
C15_InterruptsMasked ==
  /\ InTransport => irq = FALSE
  /\ ~InTransport => irq = TRUE

\* a read() whose transport timed out inside the bit loop has returned
C15_Witness ==
  /\ Returned /\ attempts # <<>> /\ LastStatus = DHTLIB_ERROR_TIMEOUT_C
  /\ result = DHTLIB_ERROR_TIMEOUT_C /\ irq = TRUE

\* C16: the step of _read() that follows every transport, whatever its
\* status, leaves the line an output driven high and _lastRead at the current
\* time; no other step changes _lastRead.
C16_LineAndTimestamp ==
  [][ /\ (pc = "post" /\ pc' # "post") =>
           (pinDir' = "OUTPUT" /\ pinOut' = "HIGH" /\ _lastRead' = now)
      /\ _lastRead' # _lastRead => (pc = "post" /\ pc' # "post") ]_vars

C16_Witness ==
  /\ Returned /\ attempts # <<>> /\ LastStatus = DHTLIB_ERROR_SENSOR_NOT_READY
  /\ pinDir = "OUTPUT" /\ pinOut = "HIGH" /\ now > 0 /\ _lastRead = now

\* the busy-waits a transport has run when its k-th bit wait is the last one
\* (the handshake's three, two for every bit stored, and k)
WaitsAtBit(k) == 3 + 2 * (FrameBits - i) + k

\* C17: the code _readSensor() returns names the wait during which the line
\* did not move, in the order of the phases, and that wait is the last one
\* the transport ran; a trailing wait that runs out gives no error code.
C17_FirstStalledWait ==
  /\ pc # "post" => stalled = "none"
  /\ pc = "post" =>
       /\ stalled = "ready" <=> rv = DHTLIB_ERROR_SENSOR_NOT_READY
       /\ stalled = "ackLow" <=> rv = DHTLIB_ERROR_TIMEOUT_A
       /\ stalled = "ackHigh" <=> rv = DHTLIB_ERROR_TIMEOUT_B
       /\ stalled = "bitLow" <=> rv = DHTLIB_ERROR_TIMEOUT_C
       /\ stalled = "bitHigh" <=> rv = DHTLIB_ERROR_TIMEOUT_D
       /\ stalled \in {"trail", "none"} <=> rv \in {DHTLIB_OK, DHTLIB_ERROR_BIT_SHIFT}
       /\ stalled = "ready" => (waits = 1 /\ idx = 0 /\ _bits = ZeroFrame)
       /\ stalled = "ackLow" => (waits = 2 /\ idx = 0 /\ _bits = ZeroFrame)
       /\ stalled = "ackHigh" => (waits = 3 /\ idx = 0 /\ _bits = ZeroFrame)
       /\ stalled = "bitLow" => (i > 0 /\ waits = WaitsAtBit(1))
       /\ stalled = "bitHigh" => (i > 0 /\ waits = WaitsAtBit(2))
       /\ stalled \in {"trail", "none"} => (i = 0 /\ idx = 5 /\ waits = WaitsAtBit(1))

\* the high phase of a bit in the middle of the frame did not end
C17_Witness ==
  /\ pc = "post" /\ stalled = "bitHigh" /\ rv = DHTLIB_ERROR_TIMEOUT_D
  /\ i < FrameBits /\ idx > 0

\* C18: every busy-wait of a transport runs its body at most DHTLIB_TIMEOUT
\* times, a transport runs at most 3 handshake waits, 2 for each of the 40
\* bits and 1 trailing wait, a read() runs at most one transport when the
\* type is known and at most two when it is not, and a read() that has passed
\* the gate returns.
C18_Terminates ==
  /\ [](/\ iters <= DHTLIB_TIMEOUT
        /\ waits <= 3 + 2 * FrameBits + 1
        /\ pc \in {"ready", "ackLow", "ackHigh"} => waits < 3
        /\ pc = "bits" => waits = WaitsAtBit(0)
        /\ Len(attempts) <= (IF callType = 0 THEN 2 ELSE 1))
  /\ (pc \notin {"idle", "done", "gate"}) ~> Returned

\* the second transport of a detection ran all its waits, the last one to
\* the end of its budget
C18_Witness ==
  /\ pc = "post" /\ Len(attempts) = 2
  /\ waits = 3 + 2 * FrameBits + 1 /\ iters = DHTLIB_TIMEOUT /\ stalled = "trail"

\* C19 as claimed: every transport of type 11 sends a wake-up pulse of 18 ms
\* plus 10 %, every transport of type 22 one of 1 ms plus 10 %, also when the
\* type was set with setType().
C19_WakeupFollowsType ==
  \A k \in 1..Len(attempts) :
     attempts[k].pulseUs = (IF attempts[k].type = 11 THEN DHTLIB_DHT11_WAKEUP
                            ELSE DHTLIB_DHT_WAKEUP) * 1100

\* a read() of a handle of known type ran a transport that failed, with
\* suppression and blocking off
FailedUnsuppressed ==
  /\ KnownReadFailed /\ LastStatus \in TransportErrors
  /\ ~_suppressError /\ ~_waitForRead

\* C20: OK from read() does not imply valid values: with the type known and
\* blocking and suppression off, a read() entered inside the interval after a
\* read() whose transport failed returns OK without a transport, and
\* _humidity and _temperature hold the sentinel.
C20_OkWithoutValues ==
  [][ (FailedUnsuppressed /\ EntersRead /\ _type # 0
         /\ now - _lastRead < LazyReadDelay) =>
        /\ pc' = "done" /\ result' = DHTLIB_OK /\ attempts' = <<>>
        /\ _humidity' = DHTLIB_INVALID_VALUE
        /\ _temperature' = DHTLIB_INVALID_VALUE ]_vars

C20_Witness ==
  /\ Returned /\ result = DHTLIB_OK /\ attempts = <<>>
  /\ callType # 0 /\ ~_waitForRead /\ ~_suppressError
  /\ now - _lastRead < _readDelay
  /\ callHum = DHTLIB_INVALID_VALUE /\ callTemp = DHTLIB_INVALID_VALUE
  /\ _humidity = DHTLIB_INVALID_VALUE /\ _temperature = DHTLIB_INVALID_VALUE
====
